---- MODULE Spec2Model ----
(***************************************************************************)
(* Report generation pipeline of ajitashwath/researcher.                   *)
(*                                                                         *)
(* ReportCreator.create_report (src/src/create_report/main.py) runs four   *)
(* stages, each one chat-completion call, and api.py exposes it over HTTP. *)
(* Text is modelled by TLA+ strings: an f-string is the concatenation (\o) *)
(* of its literal pieces and its interpolated values.  Long literal blocks *)
(* of the prompts and of the static report are shortened (marked "...");   *)
(* every interpolation point of the source is kept.                        *)
(***************************************************************************)
EXTENDS Integers, Sequences, FiniteSets, TLC

\* Largest value of the wall clock, in seconds since the call arrived.
MaxClock == 1

-----------------------------------------------------------------------------
(* Python helpers *)

\* One character of a string.
Char(s, i) == SubSeq(s, i, i)

\* str(n) for an integer, as f"{length}" formats it.
Digit(d) == Char("0123456789", d + 1)

RECURSIVE NatToStr(_)
NatToStr(n) == IF n < 10 THEN Digit(n) ELSE NatToStr(n \div 10) \o Digit(n % 10)

IntToStr(n) == IF n < 0 THEN "-" \o NatToStr(0 - n) ELSE NatToStr(n)

\* datetime.now().strftime('%Y-%m-%d at %H:%M:%S'); the clock counts seconds
\* from 2025-01-01 00:00:00.
Pad2(n) == IF n < 10 THEN "0" \o NatToStr(n) ELSE NatToStr(n)

Strftime(t) ==
    "2025-01-01 at " \o Pad2((t \div 3600) % 24) \o ":" \o Pad2((t \div 60) % 60)
        \o ":" \o Pad2(t % 60)

\* `sub in s` for strings.
Contains(s, sub) ==
    \E i \in 1..(Len(s) - Len(sub) + 1) : SubSeq(s, i, i + Len(sub) - 1) = sub

\* str.strip()
IsSpace(c) == c \in {" ", "\t", "\n"}

RECURSIVE LStrip(_)
LStrip(s) ==
    IF s = "" THEN ""
    ELSE IF IsSpace(Char(s, 1)) THEN LStrip(SubSeq(s, 2, Len(s))) ELSE s

RECURSIVE RStrip(_)
RStrip(s) ==
    IF s = "" THEN ""
    ELSE IF IsSpace(Char(s, Len(s))) THEN RStrip(SubSeq(s, 1, Len(s) - 1)) ELSE s

Strip(s) == RStrip(LStrip(s))

\* dict helpers: a dict is a function from its keys.
HasKey(d, k) == k \in DOMAIN d

Get(d, k, default) == IF HasKey(d, k) THEN d[k] ELSE default

Restrict(d, keys) == [k \in keys |-> d[k]]

-----------------------------------------------------------------------------
(* The completion client: self.client.chat.completions.create(...) *)

\* An Optional[str] value: None or a str.
None == [kind |-> "none", content |-> ""]

Str(text) == [kind |-> "text", content |-> text]

\* What one call does: it raises, or it returns a message whose content is
\* None, "" or a text.
Raise == [kind |-> "raise", content |-> ""]

Returns(text) == Str(text)

\* The texts a stub client answers with, one per call site.
StubText(site) ==
    CASE site = "Research" -> "[R]"
      [] site = "Analysis" -> "[A]"
      [] site = "Generation" -> "[G]"
      [] site = "Review" -> "[Rv]"
      [] site = "Fallback" -> "[F]"

Outcomes(site) == {Raise, None, Returns(""), Returns(StubText(site))}

\* The truth value Python gives an Optional[str]: `content or ...`,
\* `if content:`, `if not api_key:`.
Truthy(v) == v.kind = "text" /\ v.content # ""

\* How a call ended, as the stage methods tell the cases apart: it raised,
\* it returned falsy content (None or ""), or it returned a text.
Result(o) ==
    IF o.kind = "raise" THEN "raised" ELSE IF Truthy(o) THEN "text" ELSE "empty"

\* One completion call as the client saw it: the prompt and how it ended.
Call(site, system, user, o) ==
    [site |-> site, system |-> system, user |-> user, result |-> Result(o)]

\* The value a stage method hands back to create_report: a returned string
\* or an exception, the completion calls it issued, and how many times it
\* invoked _create_fallback_report.
Return(value, issued) ==
    [raised |-> FALSE, value |-> value, calls |-> issued, built |-> 0]

Raised(issued) ==
    [raised |-> TRUE, value |-> "", calls |-> issued, built |-> 0]

\* The same value, handed back by _create_fallback_report itself.
Built(r) == [r EXCEPT !.built = 1]

-----------------------------------------------------------------------------
(* ReportCreator: prompts *)

ResearchSystem ==
    "You are a senior research analyst with expertise in gathering comprehensive information. ... Provide detailed, well-structured research findings."

ResearchUser(topic) == "Conduct comprehensive research on: " \o topic

AnalysisSystem ==
    "You are a data analyst specializing in extracting insights from research data. ... Provide actionable insights that will strengthen the report."

\* Mutant: the user prompt names the topic and leaves the research out.
AnalysisUser_without_data(research_data, topic) ==
    "Analyze this research data about " \o topic \o ":\n\n"

AnalysisUser(research_data, topic) ==
    "Analyze this research data about " \o topic \o ":\n\n" \o research_data

charts_instruction(config) ==
    IF Get(config, "include_charts", FALSE)
    THEN "Include suggestions for data visualizations and charts where appropriate."
    ELSE ""

sources_instruction(config) ==
    IF Get(config, "include_sources", FALSE)
    THEN "Include proper citations and references throughout the report."
    ELSE ""

GenerationSystem(config) ==
    "You are a professional report writer creating a " \o config["report_type"]
        \o " report \nof approximately " \o IntToStr(config["length"])
        \o " pages. Create a comprehensive, well-structured report with:\n\n1. Executive Summary\n... 10. Conclusion and Next Steps\n\n"
        \o charts_instruction(config) \o "\n" \o sources_instruction(config)
        \o "\n\nUse professional formatting, clear headings, and actionable content."

GenerationUser(config, research_data, analysis_data) ==
    "Create a comprehensive " \o config["report_type"] \o " report on: "
        \o config["topic"] \o "\n\nResearch Findings:\n" \o research_data
        \o "\n\nAnalysis Results:\n" \o analysis_data \o "\n\nPlease create a "
        \o IntToStr(config["length"])
        \o "-page professional report with clear structure and actionable recommendations."

ReviewSystem ==
    "You are a quality assurance specialist reviewing reports. ... Return the polished, final version of the report."

ReviewUser(report_content, config) ==
    "Review and improve this " \o config["report_type"] \o " report:\n\n"
        \o report_content

FallbackSystem(report_type) ==
    "Create a professional " \o report_type
        \o " report with clear structure and recommendations."

FallbackUser(topic) == "Create a detailed report on: " \o topic

\* The final static fallback, generated at clock t.
StaticReport(report_type, topic, t) ==
    "\n# " \o report_type \o ": " \o topic \o "\n\n**Generated on:** "
        \o Strftime(t)
        \o "\n\n## Executive Summary\n\nThis report addresses \"" \o topic
        \o "\" and provides analysis and recommendations for moving forward. Due to technical limitations, this is a simplified version of the requested report.\n\n## Introduction\n\nThe topic \""
        \o topic
        \o "\" represents an important area requiring careful analysis and strategic planning. ...\n\n## Current State Analysis\n\nThe current situation regarding \""
        \o topic
        \o "\" presents both opportunities and challenges ...\n\n## Key Challenges\n...\n## Conclusion\n\nThe analysis of \""
        \o topic
        \o "\" reveals significant opportunities for improvement and growth. ...\n\n## Next Steps\n...\n---\n\n*This report was generated using AI technology. For additional details or clarifications, please contact the report administrator.*\n        "

-----------------------------------------------------------------------------
(* ReportCreator: the stage methods.  o is what the stage's completion     *)
(* call does, fo what the fallback builder's call does, t the clock the    *)
(* static report reads.                                                    *)

\* Mutant: a call that raised is issued once more before the marker is
\* returned.
conduct_research_retries(topic, o) ==
    LET call == Call("Research", ResearchSystem, ResearchUser(topic), o)
    IN  IF o.kind = "raise"
        THEN Return("Research phase encountered an error for topic: " \o topic,
                    <<call, call>>)
        ELSE Return(IF Truthy(o) THEN o.content ELSE "Research data for: " \o topic,
                    <<call>>)

conduct_research(topic, o) ==
    LET call == Call("Research", ResearchSystem, ResearchUser(topic), o)
    IN  IF o.kind = "raise"
        THEN Return("Research phase encountered an error for topic: " \o topic,
                    <<call>>)
        ELSE Return(IF Truthy(o) THEN o.content ELSE "Research data for: " \o topic,
                    <<call>>)

\* Mutant: the except clause carries the marker copied from Research.
analyze_data_copied_marker(research_data, topic, o) ==
    LET call == Call("Analysis", AnalysisSystem,
                     AnalysisUser(research_data, topic), o)
    IN  IF o.kind = "raise"
        THEN Return("Research phase encountered an error for topic: " \o topic,
                    <<call>>)
        ELSE Return(IF Truthy(o) THEN o.content ELSE "Analysis data for: " \o topic,
                    <<call>>)

analyze_data(research_data, topic, o) ==
    LET call == Call("Analysis", AnalysisSystem,
                     AnalysisUser(research_data, topic), o)
    IN  IF o.kind = "raise"
        THEN Return("Analysis phase encountered an error for topic: " \o topic,
                    <<call>>)
        ELSE Return(IF Truthy(o) THEN o.content ELSE "Analysis data for: " \o topic,
                    <<call>>)

\* Mutant: the builder's completion call is not wrapped in try/except.
create_fallback_report_unguarded(config, fo, t) ==
    IF ~HasKey(config, "topic") \/ ~HasKey(config, "report_type")
    THEN Built(Raised(<<>>))
    ELSE LET topic == config["topic"]
             report_type == config["report_type"]
             call == Call("Fallback", FallbackSystem(report_type),
                          FallbackUser(topic), fo)
         IN  IF fo.kind = "raise"
             THEN Built(Raised(<<call>>))
             ELSE IF Truthy(fo)
                  THEN Built(Return(fo.content, <<call>>))
                  ELSE Built(Return(StaticReport(report_type, topic, t),
                                    <<call>>))

\* Mutant: the builder fills the static template and calls nothing.
create_fallback_report_static(config, fo, t) ==
    IF ~HasKey(config, "topic") \/ ~HasKey(config, "report_type")
    THEN Built(Raised(<<>>))
    ELSE Built(Return(StaticReport(config["report_type"], config["topic"], t),
                      <<>>))

create_fallback_report(config, fo, t) ==
    IF ~HasKey(config, "topic") \/ ~HasKey(config, "report_type")
    THEN Built(Raised(<<>>))
    ELSE LET topic == config["topic"]
             report_type == config["report_type"]
             call == Call("Fallback", FallbackSystem(report_type),
                          FallbackUser(topic), fo)
         IN  IF fo.kind # "raise" /\ Truthy(fo)
             THEN Built(Return(fo.content, <<call>>))
             ELSE Built(Return(StaticReport(report_type, topic, t), <<call>>))

\* Mutant: a failed call yields a marker string, as in Research and
\* Analysis, and the fallback builder is not called.
generate_report_marker(config, research_data, analysis_data, o, fo, t) ==
    IF \E k \in {"topic", "report_type", "length"} : ~HasKey(config, k)
    THEN create_fallback_report(config, fo, t)
    ELSE LET call == Call("Generation", GenerationSystem(config),
                          GenerationUser(config, research_data, analysis_data),
                          o)
         IN  IF o.kind # "raise" /\ Truthy(o)
             THEN Return(o.content, <<call>>)
             ELSE Return("Report generation encountered an error for topic: "
                             \o config["topic"], <<call>>)

\* Mutant: the content is returned without the `if content:` test.
generate_report_unchecked(config, research_data, analysis_data, o, fo, t) ==
    IF \E k \in {"topic", "report_type", "length"} : ~HasKey(config, k)
    THEN create_fallback_report(config, fo, t)
    ELSE LET call == Call("Generation", GenerationSystem(config),
                          GenerationUser(config, research_data, analysis_data),
                          o)
             fb == create_fallback_report(config, fo, t)
         IN  IF o.kind # "raise"
             THEN Return(o.content, <<call>>)
             ELSE [fb EXCEPT !.calls = <<call>> \o fb.calls]

\* Mutant: a failed Generation call goes up to create_report.
generate_report_reraises(config, research_data, analysis_data, o, fo, t) ==
    IF \E k \in {"topic", "report_type", "length"} : ~HasKey(config, k)
    THEN create_fallback_report(config, fo, t)
    ELSE LET call == Call("Generation", GenerationSystem(config),
                          GenerationUser(config, research_data, analysis_data),
                          o)
         IN  IF o.kind # "raise" /\ Truthy(o)
             THEN Return(o.content, <<call>>)
             ELSE Raised(<<call>>)

generate_report(config, research_data, analysis_data, o, fo, t) ==
    IF \E k \in {"topic", "report_type", "length"} : ~HasKey(config, k)
    THEN create_fallback_report(config, fo, t)
    ELSE LET call == Call("Generation", GenerationSystem(config),
                          GenerationUser(config, research_data, analysis_data),
                          o)
             fb == create_fallback_report(config, fo, t)
         IN  IF o.kind # "raise" /\ Truthy(o)
             THEN Return(o.content, <<call>>)
             ELSE [fb EXCEPT !.calls = <<call>> \o fb.calls]

\* Mutant: the content is returned without `or report_content`.
review_report_no_default(report_content, config, o) ==
    IF ~HasKey(config, "report_type")
    THEN Return(report_content, <<>>)
    ELSE LET call == Call("Review", ReviewSystem,
                          ReviewUser(report_content, config), o)
         IN  IF o.kind # "raise"
             THEN Return(o.content, <<call>>)
             ELSE Return(report_content, <<call>>)

\* Mutant: a failed review yields a marker string instead of its input.
review_report_marker(report_content, config, o) ==
    IF ~HasKey(config, "report_type")
    THEN Return(report_content, <<>>)
    ELSE LET call == Call("Review", ReviewSystem,
                          ReviewUser(report_content, config), o)
         IN  IF o.kind # "raise" /\ Truthy(o)
             THEN Return(o.content, <<call>>)
             ELSE Return("Review phase encountered an error", <<call>>)

\* Mutant: the review's answer is dropped and the draft returned.
review_report_keeps_draft(report_content, config, o) ==
    IF ~HasKey(config, "report_type")
    THEN Return(report_content, <<>>)
    ELSE LET call == Call("Review", ReviewSystem,
                          ReviewUser(report_content, config), o)
         IN  Return(report_content, <<call>>)

review_report(report_content, config, o) ==
    IF ~HasKey(config, "report_type")
    THEN Return(report_content, <<>>)
    ELSE LET call == Call("Review", ReviewSystem,
                          ReviewUser(report_content, config), o)
         IN  IF o.kind # "raise" /\ Truthy(o)
             THEN Return(o.content, <<call>>)
             ELSE Return(report_content, <<call>>)

\* create_report as a function, for a config with every key: the text it
\* returns when the call from each site does what stub[site] says and the
\* fallback builder reads the clock at t.
Sites == {"Research", "Analysis", "Generation", "Fallback", "Review"}

create_report(config, stub, t) ==
    LET topic == config["topic"]
        research == conduct_research(topic, stub["Research"])
        analysis == analyze_data(research.value, topic, stub["Analysis"])
        report == generate_report(config, research.value, analysis.value,
                                  stub["Generation"], stub["Fallback"], t)
        final == review_report(report.value, config, stub["Review"])
    IN  final.value

-----------------------------------------------------------------------------
(* api.py: request validation and dependencies *)

MinTopicLength == 5
MaxTopicLength == 500
MinLength == 1
MaxLength == 20

ReportTypes ==
    {"Comprehensive Analysis", "Strategic Report", "Market Analysis",
     "Technical Report", "Business Plan", "Research Report"}

Endpoints ==
    {"/generate-report", "/generate-report-crew", "/generate-report-unified"}

\* Mutant: the page count is declared with ge=0.
ValidRequest_length_from_zero(req) ==
    LET topic == Strip(req.topic)
    IN  /\ Len(topic) >= MinTopicLength
        /\ Len(topic) <= MaxTopicLength
        /\ Strip(topic) # ""
        /\ req.report_type \in ReportTypes
        /\ req.length >= 0
        /\ req.length <= MaxLength

\* ReportRequest: str_strip_whitespace, then the Field constraints and
\* validate_topic.
ValidRequest(req) ==
    LET topic == Strip(req.topic)
    IN  /\ Len(topic) >= MinTopicLength
        /\ Len(topic) <= MaxTopicLength
        /\ Strip(topic) # ""
        /\ req.report_type \in ReportTypes
        /\ req.length >= MinLength
        /\ req.length <= MaxLength

\* The validated model the handler sees.
ParseRequest(req) == [req EXCEPT !.topic = Strip(req.topic)]

\* Mutant: the test is `if api_key is None`.
ReportCreatorInitRaises_none_only(api_key) == api_key = None

\* ReportCreator.__init__: TRUE when it raises ValueError.
ReportCreatorInitRaises(api_key) == ~Truthy(api_key)

\* ReportCreator(api_key): the instance, or the ValueError raised before
\* the OpenAI client is built.
NoCreator == [state |-> "none", api_key |-> None]

ReportCreator(api_key) ==
    [state |-> IF ReportCreatorInitRaises(api_key)
               THEN "ValueError" ELSE "constructed",
     api_key |-> api_key]

\* ReportCrew.__init__(self) takes no parameter: TRUE when a call passing
\* these keyword arguments raises TypeError.
ReportCrewInitParams == {}

ReportCrewInitRaises(kwargs) == ~(kwargs \subseteq ReportCrewInitParams)

\* The status the dependency answers with, 0 when it returns an instance.
get_report_creator(api_key) ==
    IF ReportCreatorInitRaises(api_key) THEN 500 ELSE 0

get_crew_report_creator(api_key) ==
    IF ReportCrewInitRaises({"api_key"}) THEN 500 ELSE 0

\* The dependencies each endpoint declares with Depends(...).
DependencyStatuses(ep, api_key) ==
    CASE ep = "/generate-report" -> {get_report_creator(api_key)}
      [] ep = "/generate-report-crew" -> {get_crew_report_creator(api_key)}
      [] ep = "/generate-report-unified" ->
            {get_report_creator(api_key), get_crew_report_creator(api_key)}

\* TRUE when the endpoint declares Depends(get_report_creator).
DependsOnReportCreator(ep) ==
    ep \in {"/generate-report", "/generate-report-unified"}

\* The error statuses the framework may answer with before the handler
\* body runs: 422 for the body, 500 for a dependency.
RejectionStatuses(ep, req, api_key) ==
    (IF ValidRequest(req) THEN {} ELSE {422})
        \cup (DependencyStatuses(ep, api_key) \ {0})

\* TRUE when the handler hands the request to ReportCrew.generate_report.
UsesCrew(ep, req) ==
    \/ ep = "/generate-report-crew"
    \/ ep = "/generate-report-unified" /\ req.use_crew

\* The config dict every handler builds.
BuildConfig(req) ==
    [topic |-> req.topic, report_type |-> req.report_type,
     length |-> req.length, include_charts |-> req.include_charts,
     include_sources |-> req.include_sources]

generation_method(ep, req) == IF UsesCrew(ep, req) THEN "crewai" ELSE "standard"

report_prefix(ep, req) ==
    CASE ep = "/generate-report" -> "RPT"
      [] ep = "/generate-report-crew" -> "CREW"
      [] ep = "/generate-report-unified" ->
            IF req.use_crew THEN "CREW" ELSE "STD"

NoResponse ==
    [status |-> 0, content |-> "", generation_method |-> "", report_prefix |-> ""]

ErrorResponse(status) == [NoResponse EXCEPT !.status = status]

\* The handler body after the generator returned report_content.
HandlerResponse(ep, req, report_content) ==
    IF report_content = ""
    THEN ErrorResponse(500)
    ELSE [status |-> 200, content |-> report_content,
          generation_method |-> generation_method(ep, req),
          report_prefix |-> report_prefix(ep, req)]

-----------------------------------------------------------------------------
(* Inputs *)

\* s repeated n times.
RECURSIVE Repeat(_, _)
Repeat(s, n) ==
    IF n = 0 THEN ""
    ELSE IF n % 2 = 1 THEN s \o Repeat(s, n - 1)
    ELSE LET half == Repeat(s, n \div 2) IN half \o half

\* A topic one character over the max_length of the field.
TooLongTopic == Repeat("x", MaxTopicLength + 1)

\* Request bodies: topics that pass and fail the length rule, report types
\* in and out of the enumeration, lengths in and out of range.
RawTopics ==
    {"  Impact of AI on healthcare industry ", "Cloud", "abc", "    ",
     TooLongTopic}

RequestReportTypes == {"Research Report", "Essay"}

RequestLengths == {0, 5, 21}

Requests ==
    [topic : RawTopics, report_type : RequestReportTypes,
     length : RequestLengths, include_charts : BOOLEAN,
     include_sources : BOOLEAN, use_crew : BOOLEAN]

NoRequest ==
    [topic |-> "", report_type |-> "", length |-> 0, include_charts |-> FALSE,
     include_sources |-> FALSE, use_crew |-> FALSE]

\* settings.openai_api_key as the environment provides it.
ApiKeys == {None, Str(""), Str("sk-test")}

\* The config run_report_creation passes.
CliConfig ==
    [topic |-> "How to improve infrastructure in Bangalore?",
     report_type |-> "Comprehensive Analysis", length |-> 5,
     include_charts |-> TRUE, include_sources |-> TRUE]

NoConfig == Restrict(CliConfig, {})

\* Dicts a caller of the library may pass to create_report: any subset of
\* the keys may be absent.
AnyConfigs ==
    {Restrict(CliConfig, keys \cup flags) :
        keys \in SUBSET {"topic", "report_type", "length"},
        flags \in {{}, {"include_charts", "include_sources"}}}

Stages == <<"Research", "Analysis", "Generation", "Review">>

\* Two requests in flight at once on POST /generate-report.
RunIds == {1, 2}

ConcurrentRequests ==
    {[topic |-> "  Impact of AI on healthcare industry ",
      report_type |-> "Research Report", length |-> 5,
      include_charts |-> FALSE, include_sources |-> FALSE, use_crew |-> FALSE],
     [topic |-> "Cloud", report_type |-> "Research Report", length |-> 5,
      include_charts |-> TRUE, include_sources |-> FALSE, use_crew |-> FALSE]}

\* What a completion call of one of them does: it raises or answers.
ConcurrentOutcomes(site) == {Raise, Returns(StubText(site))}

\* One request's run: the ReportCreator instance get_report_creator built
\* for it, the locals of its create_report call, and how the call from
\* each site ended.
NoRun ==
    [pc |-> "Idle", creator |-> 0, config |-> NoConfig, research_data |-> "",
     analysis_data |-> "", report_content |-> "", final_report |-> "",
     results |-> [site \in Sites |-> "none"]]

\* results, with the calls `issued` added.
WithResults(results, issued) ==
    [site \in Sites |->
        IF \E i \in DOMAIN issued : issued[i].site = site
        THEN issued[CHOOSE i \in DOMAIN issued : issued[i].site = site].result
        ELSE results[site]]

\* The next statement of create_report in the run: the stage at run.pc.
StageStep(run, o, fo, t) ==
    CASE run.pc = "Research" ->
            LET r == conduct_research(run.config["topic"], o)
            IN  [run EXCEPT !.research_data = r.value, !.pc = "Analysis",
                            !.results = WithResults(@, r.calls)]
      [] run.pc = "Analysis" ->
            LET r == analyze_data(run.research_data, run.config["topic"], o)
            IN  [run EXCEPT !.analysis_data = r.value, !.pc = "Generation",
                            !.results = WithResults(@, r.calls)]
      [] run.pc = "Generation" ->
            LET r == generate_report(run.config, run.research_data,
                                     run.analysis_data, o, fo, t)
            IN  [run EXCEPT !.report_content = r.value, !.pc = "Review",
                            !.results = WithResults(@, r.calls)]
      [] run.pc = "Review" ->
            LET r == review_report(run.report_content, run.config, o)
            IN  [run EXCEPT !.final_report = r.value, !.pc = "Done",
                            !.results = WithResults(@, r.calls)]

-----------------------------------------------------------------------------
(* crew.py: CrewManager.  Agent, Task and Crew are the framework's classes: *)
(* an object is the record of the arguments it was built from.  A YAML     *)
(* value is a mapping (kind "dict") or null (kind "null").                 *)

\* Largest number of create_crew calls on one CrewManager.
MaxBuilds == 2

AgentNames == <<"researcher", "analyst", "writer", "reviewer">>

TaskNames == <<"research_task", "analysis_task", "writing_task", "review_task">>

Range(seq) == {seq[i] : i \in DOMAIN seq}

NoDict == [k \in {} |-> ""]

YamlDict(entries) == [kind |-> "dict", entries |-> entries]

YamlNull == [kind |-> "null", entries |-> NoDict]

\* What a method gives its caller: the object it made, or an exception.
Made(object) == [raised |-> FALSE, value |-> object]

Failure(exception) == [raised |-> TRUE, value |-> exception]

\* str.format(**kwargs) on a template, given as its literal pieces and
\* replacement fields: KeyError for a field that is not passed.
Lit(text) == [field |-> FALSE, text |-> text]

Field(name) == [field |-> TRUE, text |-> name]

RECURSIVE Format(_, _)
Format(template, kwargs) ==
    IF template = <<>> THEN Made("")
    ELSE LET piece == Head(template)
             rest == Format(Tail(template), kwargs)
         IN  IF piece.field /\ ~HasKey(kwargs, piece.text)
             THEN Failure("KeyError")
             ELSE IF rest.raised THEN rest
             ELSE Made((IF piece.field THEN kwargs[piece.text] ELSE piece.text)
                          \o rest.value)

\* Agent(...): the framework validates role, goal and backstory as strings.
Agent(key, origin, role, goal, backstory) ==
    IF \E v \in {role, goal, backstory} : v.kind # "text"
    THEN Failure("ValidationError")
    ELSE Made([key |-> key, origin |-> origin, role |-> role.content,
               goal |-> goal.content, backstory |-> backstory.content])

\* Task(...), created by the build-th create_crew call of the manager.
Task(key, origin, description, expected_output, agent, dependencies, build) ==
    Made([key |-> key, origin |-> origin, description |-> description,
          expected_output |-> expected_output, agent |-> agent,
          dependencies |-> dependencies, build |-> build])

\* The identity of a task object: its name and the call that created it.
TaskId(task) == <<task.key, task.build>>

create_agent(agents_config, agent_name) ==
    IF agents_config.kind # "dict" THEN Failure("TypeError")
    ELSE IF ~HasKey(agents_config.entries, agent_name)
    THEN Failure("ValueError")
    ELSE LET entry == agents_config.entries[agent_name]
             config == entry.entries
         IN  IF entry.kind # "dict" THEN Failure("AttributeError")
             ELSE Agent(agent_name, "config", Get(config, "role", Str("")),
                        Get(config, "goal", Str("")),
                        Get(config, "backstory", Str("")))

create_fallback_agent(agent_name) ==
    Agent(agent_name, "fallback", Str("AI Assistant"),
          Str("Assist with " \o agent_name \o " tasks"),
          Str("You are an AI assistant specializing in " \o agent_name
                  \o " tasks.")).value

get_sources_instruction(config) ==
    IF Get(config, "include_sources", FALSE)
    THEN "Include proper citations and references to all sources used in the research."
    ELSE ""

get_charts_instruction(config) ==
    IF Get(config, "include_charts", FALSE)
    THEN "Include suggestions for data visualizations and charts where appropriate."
    ELSE ""

\* The keyword arguments create_task is called with, as a dict.
format_task_config(tasks_config, task_name, topic, config) ==
    IF tasks_config.kind # "dict" THEN Failure("TypeError")
    ELSE IF ~HasKey(tasks_config.entries, task_name) THEN Made(NoDict)
    ELSE LET entry == tasks_config.entries[task_name]
             original_config == entry.entries
             report_type == Get(config, "report_type", "Comprehensive Analysis")
             length == IntToStr(Get(config, "length", 5))
             description ==
                 Format(original_config["description"],
                        [topic |-> topic, report_type |-> report_type,
                         length |-> length,
                         include_sources_instruction
                             |-> get_sources_instruction(config),
                         include_charts_instruction
                             |-> get_charts_instruction(config)])
             expected_output ==
                 Format(original_config["expected_output"],
                        [report_type |-> report_type, length |-> length])
         IN  IF entry.kind # "dict" THEN Failure("TypeError")
             ELSE IF HasKey(original_config, "description") /\ description.raised
             THEN description
             ELSE IF HasKey(original_config, "expected_output")
                       /\ expected_output.raised
             THEN expected_output
             ELSE Made([k \in {k \in {"description", "expected_output"} :
                                   HasKey(original_config, k)} |->
                           IF k = "description"
                           THEN description.value ELSE expected_output.value])

\* create_task on a manager whose self.tasks is self_tasks.
create_task(tasks_config, self_tasks, task_name, agents, kwargs, build) ==
    IF tasks_config.kind # "dict" THEN Failure("TypeError")
    ELSE IF ~HasKey(tasks_config.entries, task_name) THEN Failure("ValueError")
    ELSE LET entry == tasks_config.entries[task_name]
             config == entry.entries
             agent_name == Get(config, "agent", "")
             declared == Get(config, "dependencies", <<>>)
             dependencies ==
                 [i \in DOMAIN SelectSeq(declared,
                                         LAMBDA d : HasKey(self_tasks, d)) |->
                     TaskId(self_tasks[SelectSeq(declared,
                                LAMBDA d : HasKey(self_tasks, d))[i]])]
         IN  IF entry.kind # "dict" THEN Failure("AttributeError")
             ELSE IF ~HasKey(agents, agent_name) THEN Failure("ValueError")
             ELSE Task(task_name, "config",
                       Get(kwargs, "description", Get(config, "description", "")),
                       Get(kwargs, "expected_output",
                           Get(config, "expected_output", "")),
                       agents[agent_name], dependencies, build)

create_fallback_task(task_name, agents, topic, build) ==
    Task(task_name, "fallback",
         "Work on " \o task_name \o " for the topic: " \o topic,
         "Results for " \o task_name, agents[AgentNames[1]], <<>>, build).value

\* Mutant: create_agent is called outside any try block.
CreateCrewAgent_unguarded(agents_config, agent_name) ==
    create_agent(agents_config, agent_name)

\* The body of create_crew's first loop: the configured agent, or the
\* fallback agent when create_agent raised.
CreateCrewAgent(agents_config, agent_name) ==
    LET made == create_agent(agents_config, agent_name)
    IN  IF made.raised THEN Made(create_fallback_agent(agent_name)) ELSE made

\* The body of create_crew's second loop: the configured task, or the
\* fallback task when _format_task_config or create_task raised.
CreateCrewTask(tasks_config, self_tasks, task_name, agents, topic, config, build) ==
    LET task_kwargs == format_task_config(tasks_config, task_name, topic, config)
        made == create_task(tasks_config, self_tasks, task_name, agents,
                            task_kwargs.value, build)
    IN  IF task_kwargs.raised \/ made.raised
        THEN Made(create_fallback_task(task_name, agents, topic, build))
        ELSE made

\* create_crew's second loop after its first n rounds: the tasks list and
\* self.tasks, which create_task reads and writes.
RECURSIVE CrewTasks(_, _, _, _, _, _)
CrewTasks(manager, agents, topic, report_config, build, n) ==
    IF n = 0
    THEN [raised |-> FALSE, tasks |-> <<>>, self_tasks |-> manager.tasks]
    ELSE LET before == CrewTasks(manager, agents, topic, report_config, build,
                                 n - 1)
             task_name == TaskNames[n]
             made == CreateCrewTask(manager.tasks_config, before.self_tasks,
                                    task_name, agents, topic, report_config,
                                    build)
         IN  IF before.raised \/ made.raised
             THEN [before EXCEPT !.raised = TRUE]
             ELSE [raised |-> FALSE,
                   tasks |-> Append(before.tasks, made.value),
                   self_tasks |->
                       IF made.value.origin = "config"
                       THEN (task_name :> made.value) @@ before.self_tasks
                       ELSE before.self_tasks]

NoCrew == [state |-> "none", agents |-> <<>>, tasks |-> <<>>, process |-> ""]

\* Mutant: the tasks that have dependencies are handed over after the
\* tasks that have none.
Crew_dependencies_last(agents, tasks) ==
    [state |-> "built",
     agents |-> [i \in DOMAIN AgentNames |-> agents[AgentNames[i]]],
     tasks |-> SelectSeq(tasks, LAMBDA task : task.dependencies = <<>>)
                  \o SelectSeq(tasks, LAMBDA task : task.dependencies # <<>>),
     process |-> "sequential"]

\* Crew(agents=list(agents.values()), tasks=tasks, process=sequential)
Crew(agents, tasks) ==
    [state |-> "built",
     agents |-> [i \in DOMAIN AgentNames |-> agents[AgentNames[i]]],
     tasks |-> tasks, process |-> "sequential"]

\* create_crew on the manager: the crew, or the exception it lets through,
\* and the manager with self.agents and self.tasks as the call leaves them.
create_crew(manager, topic, report_config) ==
    LET build == manager.builds + 1
        made == [n \in Range(AgentNames) |->
                    CreateCrewAgent(manager.agents_config, n)]
        agents == [n \in Range(AgentNames) |-> made[n].value]
        configured == {n \in Range(AgentNames) :
                          ~made[n].raised /\ agents[n].origin = "config"}
        built == CrewTasks(manager, agents, topic, report_config, build,
                           Len(TaskNames))
    IN  IF (\E n \in Range(AgentNames) : made[n].raised) \/ built.raised
        THEN [raised |-> TRUE, manager |-> manager,
              crew |-> [NoCrew EXCEPT !.state = "raised"]]
        ELSE [raised |-> FALSE,
              manager |->
                  [manager EXCEPT
                      !.agents = [n \in DOMAIN manager.agents \cup configured |->
                                     IF n \in configured
                                     THEN agents[n] ELSE manager.agents[n]],
                      !.tasks = built.self_tasks,
                      !.builds = build],
              crew |-> Crew(agents, built.tasks)]

\* CrewManager before ReportCrew.__init__ built it.
NoCrewManager ==
    [constructed |-> FALSE, agents_config |-> YamlNull,
     tasks_config |-> YamlNull, agents |-> NoDict, tasks |-> NoDict,
     builds |-> 0]

\* CrewManager.__init__ with the two YAML files loaded.
CrewManager(agents_config, tasks_config) ==
    [NoCrewManager EXCEPT !.constructed = TRUE,
                          !.agents_config = agents_config,
                          !.tasks_config = tasks_config]

\* ReportCrew._generate_fallback_report at clock t.
generate_fallback_report(topic, config, t) ==
    "\n# " \o Get(config, "report_type", "Report") \o ": " \o topic
        \o "\n\n**Generated on:** " \o Strftime(t)
        \o "\n\n## Executive Summary\n\nThis report addresses the topic: \""
        \o topic
        \o "\". Due to system limitations, this is a simplified version of the requested report.\n\n## Introduction\n\nThe topic \""
        \o topic
        \o "\" represents an important area that requires careful analysis and strategic consideration.\n\n## Key Findings\n\n1. **Current State Analysis**: The current situation regarding "
        \o topic
        \o " presents both opportunities and challenges.\n...\n## Conclusion\n\nThe analysis of \""
        \o topic
        \o "\" reveals the need for a comprehensive approach that addresses both immediate challenges and long-term strategic goals.\n\n---\n\n*Note: This is a simplified report. For detailed analysis with comprehensive research, please ensure all system dependencies are properly configured.*\n        "

\* What ReportCrew.generate_report left behind, before any call.
NoCrewReport ==
    [state |-> "none", value |-> "", config |-> NoConfig, kickoff |-> "none"]

\* Mutant: generate_report has no except clause, and the exception of
\* create_crew or kickoff goes to the caller.
crew_generate_report_unguarded(manager, topic, config, ko, t) ==
    LET made == create_crew(manager, topic, config)
        failed == made.raised \/ ko.kind = "raise"
    IN  [manager |-> made.manager,
         crew |-> made.crew,
         report |->
             [state |-> IF failed THEN "raised" ELSE "returned",
              value |-> IF failed THEN "" ELSE ko.content,
              config |-> config,
              kickoff |-> IF made.raised THEN "none" ELSE Result(ko)]]

\* ReportCrew.generate_report(topic, config) at clock t, ko being what
\* crew.kickoff() does: the string returned, the manager and the crew as
\* the call leaves them.
crew_generate_report(manager, topic, config, ko, t) ==
    LET made == create_crew(manager, topic, config)
        failed == made.raised \/ ko.kind = "raise"
    IN  [manager |-> made.manager,
         crew |-> made.crew,
         report |->
             [state |-> "returned",
              value |-> IF failed
                        THEN generate_fallback_report(topic, config, t)
                        ELSE ko.content,
              config |-> config,
              kickoff |-> IF made.raised THEN "none" ELSE Result(ko)]]

-----------------------------------------------------------------------------
(* Inputs of the crew: the contents of agents.yaml and tasks.yaml *)

\* An entry of agents.yaml: complete, empty (`researcher:` and nothing
\* under it), or with a role left empty.
AgentEntry(agent_name, how) ==
    CASE how = "valid" ->
            YamlDict([role |-> Str("The " \o agent_name),
                      goal |-> Str("Do the work of the " \o agent_name),
                      backstory |-> Str("You are the " \o agent_name \o ".")])
      [] how = "empty" -> YamlNull
      [] how = "null_role" ->
            YamlDict([role |-> None,
                      goal |-> Str("Do the work of the " \o agent_name),
                      backstory |-> Str("You are the " \o agent_name \o ".")])

\* agents.yaml: an empty file (None), and every choice of absent, empty and
\* complete entries for the four names, the file that failed to load ({})
\* among them; and one where the researcher's role is left empty.
AgentsConfigs ==
    {YamlNull}
        \cup {YamlDict([n \in {m \in Range(AgentNames) : how[m] # "absent"} |->
                           AgentEntry(n, how[n])]) :
                 how \in [Range(AgentNames) -> {"absent", "empty", "valid"}]}
        \cup {YamlDict([n \in Range(AgentNames) |->
                           AgentEntry(n, IF n = "researcher"
                                         THEN "null_role" ELSE "valid")])}

\* The agent and the dependencies tasks.yaml declares for each task.
TaskAgent(task_name) ==
    CASE task_name = "research_task" -> "researcher"
      [] task_name = "analysis_task" -> "analyst"
      [] task_name = "writing_task" -> "writer"
      [] task_name = "review_task" -> "reviewer"

TaskDependencies(task_name) ==
    CASE task_name = "research_task" -> <<>>
      [] task_name = "analysis_task" -> <<"research_task">>
      [] task_name = "writing_task" -> <<"research_task", "analysis_task">>
      [] task_name = "review_task" -> <<"writing_task">>

\* An entry of tasks.yaml: complete, assigned to an agent that does not
\* exist, with a replacement field create_crew does not pass, or empty.
TaskEntry(task_name, how) ==
    LET description ==
            <<Lit("Do the " \o task_name \o " on "), Field("topic"),
              Lit(" for a "), Field("report_type"), Lit(" of "),
              Field("length"), Lit(" pages. "),
              Field("include_sources_instruction"),
              Field("include_charts_instruction")>>
        expected_output ==
            <<Lit("The " \o task_name \o " part of a "), Field("report_type"),
              Lit(" of "), Field("length"), Lit(" pages")>>
        complete ==
            [description |-> description, expected_output |-> expected_output,
             agent |-> TaskAgent(task_name),
             dependencies |-> TaskDependencies(task_name)]
    IN  CASE how = "valid" -> YamlDict(complete)
          [] how = "unknown_agent" ->
                YamlDict([complete EXCEPT !.agent = "editor"])
          [] how = "unknown_field" ->
                YamlDict([complete EXCEPT
                             !.description = Append(@, Field("audience"))])
          [] how = "empty" -> YamlNull

\* The same complete entry declaring other dependencies.
TaskEntryDepending(task_name, dependencies) ==
    YamlDict([TaskEntry(task_name, "valid").entries
                 EXCEPT !.dependencies = dependencies])

\* Dependency declarations a tasks.yaml may carry instead: none at all,
\* every task on the tasks after it, every task on itself, and names that
\* are no task.
DependencyGraphs ==
    {[n \in Range(TaskNames) |-> <<>>],
     [n \in Range(TaskNames) |->
         CASE n = "research_task" -> <<"analysis_task", "review_task">>
           [] n = "analysis_task" -> <<"writing_task">>
           [] n = "writing_task" -> <<"review_task">>
           [] n = "review_task" -> <<>>],
     [n \in Range(TaskNames) |-> <<n>>],
     [n \in Range(TaskNames) |-> <<"editing_task">> \o TaskDependencies(n)]}

\* tasks.yaml: an empty file (None); every choice of absent and complete
\* entries for the four names, the file that failed to load ({}) among
\* them; an analysis task that is assigned to an unknown agent, has an
\* unknown replacement field or is empty, with and without the research
\* task; and complete files with each of the other dependency graphs.
TasksConfigs ==
    {YamlNull}
        \cup {YamlDict([n \in {m \in Range(TaskNames) : how[m] # "absent"} |->
                           TaskEntry(n, how[n])]) :
                 how \in [Range(TaskNames) -> {"absent", "valid"}]}
        \cup {YamlDict([n \in Range(TaskNames) \ first |->
                           TaskEntry(n, IF n = "analysis_task"
                                        THEN how ELSE "valid")]) :
                 first \in {{}, {"research_task"}},
                 how \in {"unknown_agent", "unknown_field", "empty"}}
        \cup {YamlDict([n \in Range(TaskNames) |->
                           TaskEntryDepending(n, graph[n])]) :
                 graph \in DependencyGraphs}

\* The topic and the configs ReportCrew.generate_report is called with: a
\* complete dict and an empty one.
CrewTopic == CliConfig["topic"]

CrewReportConfigs == {CliConfig, NoConfig}

\* What crew.kickoff() does: it raises, or returns a result whose str() is
\* the report.
KickoffOutcomes == {Raise, Returns("[Crew]")}

-----------------------------------------------------------------------------
(* app.py: the Streamlit front-end.  st.session_state is a dict; a script  *)
(* run is one execution of main() from top to bottom, ended early only by  *)
(* st.rerun().                                                             *)

\* Largest number of reports generated in one browser session, and of
\* those generated for the example topic.
MaxReportRuns == 11

MaxExampleReports == 2

\* `if len(st.session_state.recent_reports) > 10`
MaxRecentReports == 10

SetItem(d, k, v) == [x \in DOMAIN d \cup {k} |-> IF x = k THEN v ELSE d[x]]

DelItem(d, k) == Restrict(d, DOMAIN d \ {k})

\* seq[-n:]
LastN(seq, n) ==
    IF Len(seq) <= n THEN seq ELSE SubSeq(seq, Len(seq) - n + 1, Len(seq))

\* The config generate_report builds, the sidebar widgets at their defaults.
AppConfig(topic) ==
    [topic |-> topic, report_type |-> "Comprehensive Analysis", length |-> 5,
     include_charts |-> TRUE, include_sources |-> TRUE]

\* What a script run knows of generate_report when it did not call it.
NoCall ==
    [outcome |-> "none", topic |-> "", report |-> "", absent |-> {},
     before |-> NoDict]

\* Mutant: the list is cut back to its first ten topics.
UpdateSessionState_keeps_first(session, topic) ==
    IF ~HasKey(session, "reports_generated")
    THEN [raised |-> TRUE, session |-> session]
    ELSE LET counted == SetItem(session, "reports_generated",
                                session["reports_generated"] + 1)
         IN  IF ~HasKey(counted, "recent_reports")
             THEN [raised |-> TRUE, session |-> counted]
             ELSE [raised |-> FALSE,
                   session |->
                       SetItem(counted, "recent_reports",
                               SubSeq(Append(counted["recent_reports"], topic),
                                      1, IF Len(counted["recent_reports"])
                                              < MaxRecentReports
                                         THEN Len(counted["recent_reports"]) + 1
                                         ELSE MaxRecentReports))]

\* The `Update session state` statements of generate_report: the session
\* state they leave and whether one of them raised.
UpdateSessionState(session, topic) ==
    IF ~HasKey(session, "reports_generated")
    THEN [raised |-> TRUE, session |-> session]
    ELSE LET counted == SetItem(session, "reports_generated",
                                session["reports_generated"] + 1)
         IN  IF ~HasKey(counted, "recent_reports")
             THEN [raised |-> TRUE, session |-> counted]
             ELSE [raised |-> FALSE,
                   session |->
                       SetItem(counted, "recent_reports",
                               LastN(Append(counted["recent_reports"], topic),
                                     MaxRecentReports))]

\* Mutant: the counter is incremented on entry, before the inputs are
\* validated.
app_generate_report_counts_calls(session, topic, api_key, stub, t) ==
    LET call == [NoCall EXCEPT !.topic = topic, !.before = session]
        report == create_report(AppConfig(topic), stub, t)
        counted == SetItem(session, "reports_generated",
                           Get(session, "reports_generated", 0) + 1)
    IN  IF api_key = "" \/ Strip(topic) = ""
        THEN [session |-> counted,
              call |-> [call EXCEPT !.outcome = "early_return"]]
        ELSE [session |->
                  SetItem(counted, "recent_reports",
                          LastN(Append(Get(session, "recent_reports", <<>>),
                                       topic), MaxRecentReports)),
              call |-> [call EXCEPT !.outcome = "updated", !.report = report,
                                    !.absent = {"reports_generated",
                                                "recent_reports"}
                                                   \ DOMAIN session]]

\* generate_report(topic, ..., api_key) on the session state, the
\* completion calls of its create_report doing what stub says at clock t:
\* the session state it leaves and how it ended (early_return, updated, or
\* error when one of its except clauses ran).
app_generate_report(session, topic, api_key, stub, t) ==
    LET call == [NoCall EXCEPT !.topic = topic, !.before = session]
        report == create_report(AppConfig(topic), stub, t)
        updated == UpdateSessionState(session, topic)
    IN  IF api_key = "" \/ Strip(topic) = ""
        THEN [session |-> session,
              call |-> [call EXCEPT !.outcome = "early_return"]]
        ELSE IF ReportCreatorInitRaises(Str(api_key))
        THEN [session |-> session, call |-> [call EXCEPT !.outcome = "error"]]
        ELSE [session |-> updated.session,
              call |-> [call EXCEPT
                           !.outcome = IF updated.raised
                                       THEN "error" ELSE "updated",
                           !.report = report,
                           !.absent = {"reports_generated", "recent_reports"}
                                          \ DOMAIN session]]

\* Mutant: the block initialises the counter and leaves the list out.
InitializeSessionState_counter_only(session) ==
    [k \in DOMAIN session \cup {"reports_generated"} |->
        IF HasKey(session, k) THEN session[k] ELSE 0]

\* The `Initialize session state variables` block of main().
InitializeSessionState(session) ==
    [k \in DOMAIN session \cup {"reports_generated", "recent_reports"} |->
        IF HasKey(session, k) THEN session[k]
        ELSE IF k = "reports_generated" THEN 0 ELSE <<>>]

\* One script run of main(): api_key and topic are what the two text
\* inputs return, clicked the button that triggered the run ("" for none,
\* "generate", or the example topic of the button).  It gives the session
\* state it leaves, whether it ended in st.rerun(), and the call of
\* generate_report it made.
app_main(session, api_key, topic, clicked, stub, t) ==
    LET stored == IF api_key # ""
                  THEN SetItem(session, "openai_api_key", api_key)
                  ELSE session
        generated ==
            IF clicked = "generate" /\ Strip(topic) # "" /\ api_key # ""
            THEN app_generate_report(DelItem(stored, "topic_input"), topic,
                                     api_key, stub, t)
            ELSE [session |-> stored, call |-> NoCall]
    IN  IF clicked \notin {"", "generate"}
        THEN [session |-> SetItem(stored, "topic_input", clicked),
              rerun |-> TRUE, call |-> NoCall]
        ELSE [session |-> InitializeSessionState(generated.session),
              rerun |-> FALSE, call |-> generated.call]

\* What the user may have in the two text inputs, the example button of
\* the model, and what the completion calls of a run do.
ExampleTopic == CliConfig["topic"]

TopicInputs == {"  ", "Cloud", ExampleTopic}

ApiKeyInputs == {"", "sk-test"}

AppStubs ==
    {[site \in Sites |-> Raise], [site \in Sites |-> Returns(StubText(site))]}

-----------------------------------------------------------------------------
(* State *)

VARIABLES
    app,            \* the process: starting, then the API application
                    \* (serving, failed), the CLI (cli) or a library user
    env_api_key,    \* settings.openai_api_key
    caller,         \* who called create_report: none, api, cli, direct
    endpoint,       \* the endpoint of the request being served
    request,        \* its body
    response,       \* the HTTP response, status 0 while there is none
    config,         \* the config dict of the run
    pc,             \* where create_report is
    research_data,
    analysis_data,
    report_content,
    final_report,   \* what create_report returned
    calls,          \* the completion calls issued so far
    entered,        \* the stage methods entered so far
    fallback_from,  \* the callers of _create_fallback_report so far
    creator,        \* the ReportCreator construction of this process
    now,            \* the wall clock
    runs,           \* the requests a server handles side by side
    instances,      \* the ReportCreator instances built for them
    crew_manager,   \* a CrewManager: its configuration, agents and tasks
    crew,           \* the Crew its last create_crew call returned
    crew_report,    \* what the last ReportCrew.generate_report call returned
    session_state,  \* st.session_state of the browser session
    st_status,      \* the session: closed, idle, or rerun when st.rerun()
                    \* has asked for another script run
    last_call,      \* the generate_report call of the last script run
    completed       \* the topics of the runs that updated the counters

vars ==
    <<app, env_api_key, caller, endpoint, request, response, config, pc,
      research_data, analysis_data, report_content, final_report, calls,
      entered, fallback_from, creator, now, runs, instances, crew_manager,
      crew, crew_report, session_state, st_status, last_call, completed>>

concVars == <<runs, instances>>

crewVars == <<crew_manager, crew, crew_report>>

uiVars == <<session_state, st_status, last_call, completed>>

apiVars == <<app, env_api_key, caller, endpoint, request, response, creator>>

runVars ==
    <<config, pc, research_data, analysis_data, report_content, final_report,
      calls, entered, fallback_from>>

Init ==
    /\ app = "starting"
    /\ env_api_key = None
    /\ caller = "none"
    /\ endpoint = ""
    /\ request = NoRequest
    /\ response = NoResponse
    /\ config = NoConfig
    /\ pc = "Idle"
    /\ research_data = ""
    /\ analysis_data = ""
    /\ report_content = ""
    /\ final_report = ""
    /\ calls = <<>>
    /\ entered = <<>>
    /\ fallback_from = <<>>
    /\ creator = NoCreator
    /\ now = 0
    /\ runs = [r \in RunIds |-> NoRun]
    /\ instances = 0
    /\ crew_manager = NoCrewManager
    /\ crew = NoCrew
    /\ crew_report = NoCrewReport
    /\ session_state = NoDict
    /\ st_status = "closed"
    /\ last_call = NoCall
    /\ completed = <<>>

-----------------------------------------------------------------------------
(* Actions *)

\* A second passes while a call is being served.
Tick ==
    /\ caller # "none" \/ \E r \in RunIds : runs[r].pc # "Idle"
    /\ now < MaxClock
    /\ now' = now + 1
    /\ UNCHANGED <<concVars, crewVars, uiVars>>
    /\ UNCHANGED <<apiVars, runVars>>

\* Mutant: the startup logs the missing key and goes on serving.
Lifespan_logs_only ==
    \E api_key \in ApiKeys :
        /\ app = "starting"
        /\ env_api_key' = api_key
        /\ app' = "serving"
        /\ UNCHANGED <<concVars, crewVars, uiVars>>
        /\ UNCHANGED <<caller, endpoint, request, response, creator,
                       runVars, now>>

\* api.py starts: Settings() reads the key from the environment and the
\* lifespan startup validates it.
Lifespan ==
    \E api_key \in ApiKeys :
        /\ app = "starting"
        /\ env_api_key' = api_key
        /\ app' = IF Truthy(api_key) THEN "serving" ELSE "failed"
        /\ UNCHANGED <<concVars, crewVars, uiVars>>
        /\ UNCHANGED <<caller, endpoint, request, response, creator,
                       runVars, now>>

\* A POST arrives at one of the report endpoints: the framework resolves
\* the dependencies and validates the body, then the handler builds the
\* config and calls its generator: create_report from pc = "Entry",
\* ReportCrew.generate_report from pc = "Crew".
PostRequest ==
    \E ep \in Endpoints, req \in Requests :
        /\ app = "serving"
        /\ caller = "none"
        /\ caller' = "api"
        /\ endpoint' = ep
        /\ request' = req
        /\ creator' = IF DependsOnReportCreator(ep)
                      THEN ReportCreator(env_api_key) ELSE creator
        /\ IF RejectionStatuses(ep, req, env_api_key) # {}
           THEN /\ \E status \in RejectionStatuses(ep, req, env_api_key) :
                        response' = ErrorResponse(status)
                /\ UNCHANGED runVars
           ELSE /\ config' = BuildConfig(ParseRequest(req))
                /\ pc' = IF UsesCrew(ep, req) THEN "Crew" ELSE "Entry"
                /\ UNCHANGED <<response, research_data, analysis_data,
                               report_content, final_report, calls, entered,
                               fallback_from>>
        /\ UNCHANGED <<concVars, crewVars, uiVars>>
        /\ UNCHANGED <<app, env_api_key, now>>

\* main.py run_report_creation: the user types a key, the fixed config runs.
RunReportCreation ==
    \E api_key \in ApiKeys \ {None} :
        /\ app = "starting"
        /\ Truthy(api_key)
        /\ ~ReportCreatorInitRaises(api_key)
        /\ app' = "cli"
        /\ caller' = "cli"
        /\ creator' = ReportCreator(api_key)
        /\ config' = CliConfig
        /\ pc' = "Entry"
        /\ UNCHANGED <<concVars, crewVars, uiVars>>
        /\ UNCHANGED <<env_api_key, endpoint, request, response,
                       research_data, analysis_data, report_content,
                       final_report, calls, entered, fallback_from, now>>

\* A program using the library constructs ReportCreator with the key it
\* has, which may be missing.
ConstructReportCreator ==
    \E api_key \in ApiKeys :
        /\ app = "starting"
        /\ app' = "library"
        /\ creator' = ReportCreator(api_key)
        /\ UNCHANGED <<concVars, crewVars, uiVars>>
        /\ UNCHANGED <<env_api_key, caller, endpoint, request, response,
                       runVars, now>>

\* It calls create_report on the instance with a dict of its own.
CallCreateReport ==
    \E cfg \in AnyConfigs :
        /\ app = "library"
        /\ creator.state = "constructed"
        /\ caller = "none"
        /\ caller' = "direct"
        /\ config' = cfg
        /\ pc' = "Entry"
        /\ UNCHANGED <<concVars, crewVars, uiVars>>
        /\ UNCHANGED <<app, env_api_key, endpoint, request, response, creator,
                       research_data, analysis_data, report_content,
                       final_report, calls, entered, fallback_from, now>>

\* The callers of _create_fallback_report a stage method's result r
\* accounts for.
BuiltBy(method, r) == IF r.built > 0 THEN <<method>> ELSE <<>>

\* create_report's `except Exception` clause, entered after the stage that
\* raised issued the calls `issued` and invoked the builder as `built`
\* tells: the fallback builder's result is returned, and its exception
\* goes to the caller.
create_report_except(issued, built, fo) ==
    LET fb == create_fallback_report(config, fo, now)
    IN  /\ calls' = calls \o issued \o fb.calls
        /\ fallback_from' = fallback_from \o built \o BuiltBy("create_report", fb)
        /\ pc' = IF fb.raised THEN "Raised" ELSE "Done"
        /\ final_report' = IF fb.raised THEN final_report ELSE fb.value

\* create_report up to the first stage: the log line reads config['topic'].
CreateReport ==
    /\ pc = "Entry"
    /\ IF HasKey(config, "topic")
       THEN /\ pc' = "Research"
            /\ UNCHANGED <<final_report, calls, fallback_from>>
       ELSE \E fo \in Outcomes("Fallback") :
                create_report_except(<<>>, <<>>, fo)
    /\ UNCHANGED <<concVars, crewVars, uiVars>>
    /\ UNCHANGED <<apiVars, config, research_data, analysis_data,
                   report_content, entered, now>>

\* Mutant: when the research call fails, the analysis is skipped.
ConductResearch_skips_analysis ==
    \E o \in Outcomes("Research") :
        LET r == conduct_research(config["topic"], o)
        IN  /\ pc = "Research"
            /\ entered' = Append(entered, "Research")
            /\ research_data' = r.value
            /\ calls' = calls \o r.calls
            /\ pc' = IF Truthy(o) /\ o.kind # "raise"
                     THEN "Analysis" ELSE "Generation"
            /\ UNCHANGED <<concVars, crewVars, uiVars>>
            /\ UNCHANGED <<apiVars, config, analysis_data, report_content,
                           final_report, fallback_from, now>>

\* Step 1: Research phase.
ConductResearch ==
    \E o \in Outcomes("Research") :
        LET r == conduct_research(config["topic"], o)
        IN  /\ pc = "Research"
            /\ entered' = Append(entered, "Research")
            /\ research_data' = r.value
            /\ calls' = calls \o r.calls
            /\ pc' = "Analysis"
            /\ UNCHANGED <<concVars, crewVars, uiVars>>
            /\ UNCHANGED <<apiVars, config, analysis_data, report_content,
                           final_report, fallback_from, now>>

\* Mutant: the analysis stage switches the charts off in the dict it was
\* handed.
AnalyzeData_edits_config ==
    \E o \in Outcomes("Analysis") :
        LET r == analyze_data(research_data, config["topic"], o)
        IN  /\ pc = "Analysis"
            /\ entered' = Append(entered, "Analysis")
            /\ analysis_data' = r.value
            /\ calls' = calls \o r.calls
            /\ pc' = "Generation"
            /\ config' = [k \in DOMAIN config \cup {"include_charts"} |->
                             IF k = "include_charts" THEN FALSE ELSE config[k]]
            /\ UNCHANGED <<concVars, crewVars, uiVars>>
            /\ UNCHANGED <<apiVars, research_data, report_content,
                           final_report, fallback_from, now>>

\* Step 2: Analysis phase.
AnalyzeData ==
    \E o \in Outcomes("Analysis") :
        LET r == analyze_data(research_data, config["topic"], o)
        IN  /\ pc = "Analysis"
            /\ entered' = Append(entered, "Analysis")
            /\ analysis_data' = r.value
            /\ calls' = calls \o r.calls
            /\ pc' = "Generation"
            /\ UNCHANGED <<concVars, crewVars, uiVars>>
            /\ UNCHANGED <<apiVars, config, research_data, report_content,
                           final_report, fallback_from, now>>

\* Mutant: when the document is the fallback builder's, create_report
\* returns it without reviewing it.
GenerateReport_returns_fallback ==
    \E o \in Outcomes("Generation"), fo \in Outcomes("Fallback"),
       fo2 \in Outcomes("Fallback") :
        LET r == generate_report(config, research_data, analysis_data, o, fo, now)
        IN  /\ pc = "Generation"
            /\ entered' = Append(entered, "Generation")
            /\ IF r.raised
               THEN /\ create_report_except(r.calls,
                                            BuiltBy("_generate_report", r), fo2)
                    /\ UNCHANGED report_content
               ELSE /\ report_content' = r.value
                    /\ calls' = calls \o r.calls
                    /\ fallback_from'
                         = fallback_from \o BuiltBy("_generate_report", r)
                    /\ pc' = IF r.built > 0 THEN "Done" ELSE "Review"
                    /\ final_report' = IF r.built > 0 THEN r.value
                                       ELSE final_report
            /\ UNCHANGED <<concVars, crewVars, uiVars>>
            /\ UNCHANGED <<apiVars, config, research_data, analysis_data, now>>

\* Step 3: Report generation phase.
GenerateReport ==
    \E o \in Outcomes("Generation"), fo \in Outcomes("Fallback"),
       fo2 \in Outcomes("Fallback") :
        LET r == generate_report(config, research_data, analysis_data, o, fo, now)
        IN  /\ pc = "Generation"
            /\ entered' = Append(entered, "Generation")
            /\ IF r.raised
               THEN /\ create_report_except(r.calls,
                                            BuiltBy("_generate_report", r), fo2)
                    /\ UNCHANGED report_content
               ELSE /\ report_content' = r.value
                    /\ calls' = calls \o r.calls
                    /\ fallback_from'
                         = fallback_from \o BuiltBy("_generate_report", r)
                    /\ pc' = "Review"
                    /\ UNCHANGED final_report
            /\ UNCHANGED <<concVars, crewVars, uiVars>>
            /\ UNCHANGED <<apiVars, config, research_data, analysis_data, now>>

\* Mutant: the review stamps the text it returns with the clock.
ReviewReport_stamped ==
    \E o \in Outcomes("Review") :
        LET r == review_report(report_content, config, o)
        IN  /\ pc = "Review"
            /\ entered' = Append(entered, "Review")
            /\ final_report' = r.value \o "\n\nReviewed on: " \o Strftime(now)
            /\ calls' = calls \o r.calls
            /\ pc' = "Done"
            /\ UNCHANGED <<concVars, crewVars, uiVars>>
            /\ UNCHANGED <<apiVars, config, research_data, analysis_data,
                           report_content, fallback_from, now>>

\* Step 4: Review and polish; create_report returns its result.
ReviewReport ==
    \E o \in Outcomes("Review") :
        LET r == review_report(report_content, config, o)
        IN  /\ pc = "Review"
            /\ entered' = Append(entered, "Review")
            /\ final_report' = r.value
            /\ calls' = calls \o r.calls
            /\ pc' = "Done"
            /\ UNCHANGED <<concVars, crewVars, uiVars>>
            /\ UNCHANGED <<apiVars, config, research_data, analysis_data,
                           report_content, fallback_from, now>>

\* The handler body after create_report: the response, or the 500 of its
\* `except Exception` clause.
Respond ==
    /\ caller = "api"
    /\ pc \in {"Done", "Raised"}
    /\ response.status = 0
    /\ response' = IF pc = "Raised"
                   THEN ErrorResponse(500)
                   ELSE HandlerResponse(endpoint, request, final_report)
    /\ UNCHANGED <<concVars, crewVars, uiVars>>
    /\ UNCHANGED <<app, env_api_key, caller, endpoint, request, creator,
                   runVars, now>>

\* A POST /generate-report arrives while another may be in flight:
\* get_report_creator builds a ReportCreator for it and the handler calls
\* create_report on that instance.
ConcurrentPost(r) ==
    \E req \in ConcurrentRequests :
        /\ app = "serving"
        /\ runs[r].pc = "Idle"
        /\ ValidRequest(req)
        /\ get_report_creator(env_api_key) = 0
        /\ instances' = instances + 1
        /\ runs' = [runs EXCEPT ![r] =
                        [NoRun EXCEPT !.pc = "Research",
                                      !.creator = instances + 1,
                                      !.config = BuildConfig(ParseRequest(req))]]
        /\ UNCHANGED <<apiVars, runVars, now, crewVars, uiVars>>

\* Mutant: the draft is kept where every run sees it, and Review reads
\* the other run's draft when there is one.
ConcurrentStage_shared_draft(r) ==
    LET other == CHOOSE q \in RunIds : q # r
        seen == IF runs[r].pc = "Review" /\ runs[other].report_content # ""
                THEN [runs[r] EXCEPT
                          !.report_content = runs[other].report_content]
                ELSE runs[r]
    IN  /\ runs[r].pc \in {"Research", "Analysis", "Generation", "Review"}
        /\ \E o \in ConcurrentOutcomes(runs[r].pc),
              fo \in ConcurrentOutcomes("Fallback") :
                runs' = [runs EXCEPT ![r] = StageStep(seen, o, fo, now)]
        /\ UNCHANGED <<apiVars, runVars, now, instances, crewVars, uiVars>>

\* The run of request r takes its next stage, whatever the other run is
\* doing.
ConcurrentStage(r) ==
    /\ runs[r].pc \in {"Research", "Analysis", "Generation", "Review"}
    /\ \E o \in ConcurrentOutcomes(runs[r].pc),
          fo \in ConcurrentOutcomes("Fallback") :
            runs' = [runs EXCEPT ![r] = StageStep(runs[r], o, fo, now)]
    /\ UNCHANGED <<apiVars, runVars, now, instances, crewVars, uiVars>>

\* ReportCrew.__init__: the CrewManager loads agents.yaml and tasks.yaml.
CrewManagerInit ==
    \E agents_config \in AgentsConfigs, tasks_config \in TasksConfigs :
        /\ ~crew_manager.constructed
        /\ crew_manager' = CrewManager(agents_config, tasks_config)
        /\ UNCHANGED <<apiVars, runVars, now, concVars, crew, crew_report,
                       uiVars>>

\* ReportCrew.generate_report: create_crew on the manager, crew.kickoff()
\* and the except clause.
CrewGenerateReport ==
    /\ crew_manager.constructed
    /\ crew_manager.builds < MaxBuilds
    /\ \E report_config \in CrewReportConfigs, ko \in KickoffOutcomes :
          \E done \in {crew_generate_report(crew_manager, CrewTopic,
                                            report_config, ko, now)} :
              /\ crew_manager' = done.manager
              /\ crew' = done.crew
              /\ crew_report' = done.report
    /\ UNCHANGED <<apiVars, runVars, now, concVars, uiVars>>

\* A browser opens the page: the first script run of the session, with no
\* button clicked and both text inputs at their empty defaults.
OpenSession ==
    LET run == app_main(session_state, "", "", "", CHOOSE s \in AppStubs : TRUE,
                        now)
    IN  /\ st_status = "closed"
        /\ st_status' = "idle"
        /\ session_state' = run.session
        /\ last_call' = run.call
        /\ UNCHANGED <<apiVars, runVars, now, concVars, crewVars, completed>>

\* The user changes a text input and the script runs again, no button
\* clicked.
EditInputs ==
    \E api_key \in ApiKeyInputs, topic \in TopicInputs :
        LET run == app_main(session_state, api_key, topic, "",
                            CHOOSE s \in AppStubs : TRUE, now)
        IN  /\ st_status = "idle"
            /\ session_state' = run.session
            /\ last_call' = run.call
            /\ UNCHANGED <<apiVars, runVars, now, concVars, crewVars,
                           st_status, completed>>

\* The user clicks an example button: the run stores the topic and ends in
\* st.rerun().
ClickExample ==
    \E api_key \in ApiKeyInputs, topic \in TopicInputs :
        LET run == app_main(session_state, api_key, topic, ExampleTopic,
                            CHOOSE s \in AppStubs : TRUE, now)
        IN  /\ st_status = "idle"
            /\ session_state' = run.session
            /\ last_call' = run.call
            /\ st_status' = IF run.rerun THEN "rerun" ELSE "idle"
            /\ UNCHANGED <<apiVars, runVars, now, concVars, crewVars,
                           completed>>

\* The script run st.rerun() asked for: no button is clicked in it and
\* the topic input shows the stored example topic.
Rerun ==
    \E api_key \in ApiKeyInputs :
        LET run == app_main(session_state, api_key,
                            Get(session_state, "topic_input", ""), "",
                            CHOOSE s \in AppStubs : TRUE, now)
        IN  /\ st_status = "rerun"
            /\ st_status' = "idle"
            /\ session_state' = run.session
            /\ last_call' = run.call
            /\ UNCHANGED <<apiVars, runVars, now, concVars, crewVars,
                           completed>>

\* The user clicks Generate Report: the run executes the handler, then
\* the rest of the script.
ClickGenerate ==
    \E api_key \in ApiKeyInputs, topic \in TopicInputs, stub \in AppStubs :
        LET run == app_main(session_state, api_key, topic, "generate", stub,
                            now)
        IN  /\ st_status = "idle"
            /\ Len(completed) < MaxReportRuns
            /\ topic = ExampleTopic =>
                  Cardinality({i \in DOMAIN completed :
                                  completed[i] = ExampleTopic})
                      < MaxExampleReports
            /\ session_state' = run.session
            /\ last_call' = run.call
            /\ completed' = IF run.call.outcome = "updated"
                            THEN Append(completed, topic) ELSE completed
            /\ UNCHANGED <<apiVars, runVars, now, concVars, crewVars,
                           st_status>>

\* The steps of one create_report call.
RunStep ==
    \/ CreateReport
    \/ ConductResearch
    \/ AnalyzeData
    \/ GenerateReport
    \/ ReviewReport

Next ==
    \/ Tick
    \/ Lifespan
    \/ PostRequest
    \/ RunReportCreation
    \/ RunStep
    \/ Respond

\* The program: the API server and the CLI.
Spec == Init /\ [][Next]_vars

\* The library under any caller: create_report with any dict.
NextAnyConfig == Next \/ ConstructReportCreator \/ CallCreateReport

SpecAnyConfig == Init /\ [][NextAnyConfig]_vars

\* A completion call returns or raises, and Python runs the next statement.
FairSpec == Spec /\ WF_vars(RunStep)

\* The API server with two requests in flight, their stages interleaved.
NextConcurrent ==
    \/ Tick
    \/ Lifespan
    \/ \E r \in RunIds : ConcurrentPost(r)
    \/ \E r \in RunIds : ConcurrentStage(r)

SpecConcurrent == Init /\ [][NextConcurrent]_vars

\* A ReportCrew and the generate_report calls made on it.
NextCrew == CrewManagerInit \/ CrewGenerateReport

SpecCrew == Init /\ [][NextCrew]_vars

\* One browser session of the Streamlit front-end: its script runs.
NextStreamlit ==
    \/ OpenSession
    \/ EditInputs
    \/ ClickExample
    \/ Rerun
    \/ ClickGenerate

SpecStreamlit == Init /\ [][NextStreamlit]_vars

-----------------------------------------------------------------------------
(* Vocabulary of the properties *)

\* The config carries the three keys the stages read with config[...].
ConfigComplete == {"topic", "report_type", "length"} \subseteq DOMAIN config

\* How the call issued from `site` ended, "none" when none was issued.
ResultAt(site) ==
    IF \E i \in DOMAIN calls : calls[i].site = site
    THEN calls[CHOOSE i \in DOMAIN calls : calls[i].site = site].result
    ELSE "none"

\* The user prompt of the call issued from `site`.
UserPromptAt(site) ==
    calls[CHOOSE i \in DOMAIN calls : calls[i].site = site].user

Succeeded(site) == ResultAt(site) = "text"

Failed(site) == ResultAt(site) \in {"raised", "empty"}

\* create_report returned and every completion call it issued failed.
AllCallsFailed ==
    /\ pc = "Done"
    /\ \A i \in DOMAIN calls : calls[i].result # "text"

\* The strings the stages build without the model's help, for this config.
ResearchMarkers == 
    {"Research phase encountered an error for topic: " \o config["topic"],
     "Research data for: " \o config["topic"]}

AnalysisMarkers ==
    {"Analysis phase encountered an error for topic: " \o config["topic"],
     "Analysis data for: " \o config["topic"]}

StaticReports ==
    {StaticReport(config["report_type"], config["topic"], t) : t \in 0..now}

-----------------------------------------------------------------------------
(* Properties *)

\* C1: for a config that carries topic, report_type and length, whatever
\* each completion call does, create_report does not raise and the string
\* it returns is not empty.
C1_ReturnsNonEmptyText ==
    ConfigComplete =>
        /\ pc # "Raised"
        /\ pc = "Done" => final_report # ""

\* C1 witness: a run with a complete config in which all five calls failed
\* has returned.
C1_Witness ==
    /\ AllCallsFailed
    /\ ConfigComplete
    /\ Len(calls) = 5
    /\ Failed("Review")

\* C2: create_report never raises to its caller, for any config.
C2_NeverRaises == pc # "Raised"

\* C3: a request that passes validation, with the credential configured,
\* is answered 200 with report text on every report endpoint.
C3_ValidRequestAnswered200 ==
    (caller = "api" /\ Truthy(env_api_key) /\ ValidRequest(request)
        /\ response.status # 0)
        => response.status = 200 /\ response.content # ""

C5_ReviewFailureReturnsGeneration ==
    (pc = "Done" /\ Succeeded("Research") /\ Succeeded("Analysis")
        /\ Succeeded("Generation") /\ Failed("Review"))
        => final_report = report_content
            /\ final_report = StubText("Generation")

C5_Witness ==
    /\ pc = "Done"
    /\ Succeeded("Research") /\ Succeeded("Analysis")
    /\ Succeeded("Generation")
    /\ ResultAt("Review") = "raised"
    /\ final_report = "[G]"

\* C6: when all four stage calls succeed with text, create_report returns
\* exactly the Review call's text.
C6_AllSucceedReturnsReview ==
    (pc = "Done" /\ Succeeded("Research") /\ Succeeded("Analysis")
        /\ Succeeded("Generation") /\ Succeeded("Review"))
        => final_report = StubText("Review")

C6_Witness ==
    /\ pc = "Done"
    /\ Len(calls) = 4
    /\ \A i \in DOMAIN calls : calls[i].result = "text"
    /\ final_report = "[Rv]"
    /\ config["topic"] = "Impact of AI on healthcare industry"

C9_FailedStageYieldsFixedMarker ==
    LET Markers == ResearchMarkers \cup AnalysisMarkers \cup StaticReports
    IN  /\ (Failed("Research") /\ ConfigComplete) => research_data \in Markers
        /\ (Failed("Analysis") /\ ConfigComplete) => analysis_data \in Markers
        /\ (Failed("Generation") /\ pc \in {"Review", "Done"})
              => report_content \in Markers
        /\ (Failed("Review") /\ pc = "Done") => final_report \in Markers

\* C9 amended: a failed Research or Analysis call yields that stage's
\* fixed marker (one for a raised call, one for empty content); a failed
\* Generation call yields the fallback builder's result; a failed Review
\* call yields its input unchanged; and the next stage runs with that
\* output in its prompt.
C9_FailurePolicyPerStage ==
    /\ ResultAt("Research") = "raised" =>
          research_data
            = "Research phase encountered an error for topic: " \o config["topic"]
    /\ ResultAt("Research") = "empty" =>
          research_data = "Research data for: " \o config["topic"]
    /\ ResultAt("Analysis") = "raised" =>
          analysis_data
            = "Analysis phase encountered an error for topic: " \o config["topic"]
    /\ ResultAt("Analysis") = "empty" =>
          analysis_data = "Analysis data for: " \o config["topic"]
    /\ (Failed("Generation") /\ pc \in {"Review", "Done"}) =>
          IF Succeeded("Fallback")
          THEN report_content = StubText("Fallback")
          ELSE report_content \in StaticReports
    /\ (Failed("Review") /\ pc = "Done") => final_report = report_content
    /\ (Failed("Research") /\ ResultAt("Analysis") # "none") =>
          Contains(UserPromptAt("Analysis"), research_data)
    /\ (Failed("Analysis") /\ ResultAt("Generation") # "none") =>
          Contains(UserPromptAt("Generation"), analysis_data)
    /\ (Failed("Generation") /\ ResultAt("Review") # "none") =>
          Contains(UserPromptAt("Review"), report_content)
    /\ Failed("Research") => pc \in {"Analysis", "Generation", "Review", "Done"}
    /\ Failed("Analysis") => pc \in {"Generation", "Review", "Done"}
    /\ Failed("Generation") => pc \in {"Review", "Done"}

\* C9 witness: all four stage calls failed, the fallback builder's call
\* answered, and the run returned that answer.
C9_Witness ==
    /\ pc = "Done"
    /\ ResultAt("Research") = "raised"
    /\ ResultAt("Analysis") = "raised"
    /\ ResultAt("Generation") = "raised"
    /\ ResultAt("Review") = "raised"
    /\ Succeeded("Fallback")
    /\ final_report = "[F]"

\* C10 as stated: the prompt of every stage includes the output of every
\* earlier stage that succeeded.
C10_PromptIncludesEveryEarlierOutput ==
    /\ (ResultAt("Analysis") # "none" /\ Succeeded("Research")) =>
          Contains(UserPromptAt("Analysis"), StubText("Research"))
    /\ ResultAt("Generation") # "none" =>
          \A earlier \in {"Research", "Analysis"} :
              Succeeded(earlier) =>
                  Contains(UserPromptAt("Generation"), StubText(earlier))
    /\ ResultAt("Review") # "none" =>
          \A earlier \in {"Research", "Analysis", "Generation"} :
              Succeeded(earlier) =>
                  Contains(UserPromptAt("Review"), StubText(earlier))

\* C10 amended: the Analysis prompt includes the Research output, the
\* Generation prompt includes the Research and Analysis outputs, and the
\* Review prompt includes the Generation output and is built from it and
\* report_type alone: the Research and Analysis outputs are not passed on
\* to Review.
C10_PromptIncludesItsInputs ==
    /\ ResultAt("Analysis") # "none" =>
          Contains(UserPromptAt("Analysis"), research_data)
    /\ ResultAt("Generation") # "none" =>
          /\ Contains(UserPromptAt("Generation"), research_data)
          /\ Contains(UserPromptAt("Generation"), analysis_data)
    /\ ResultAt("Review") # "none" =>
          /\ Contains(UserPromptAt("Review"), report_content)
          /\ (Succeeded("Research") /\ Succeeded("Generation")) =>
                ~Contains(UserPromptAt("Review"), research_data)
          /\ (Succeeded("Analysis") /\ Succeeded("Generation")) =>
                ~Contains(UserPromptAt("Review"), analysis_data)

C10_Witness ==
    /\ pc = "Done"
    /\ Succeeded("Research") /\ Succeeded("Analysis")
    /\ Succeeded("Generation") /\ Succeeded("Review")
    /\ Contains(UserPromptAt("Generation"), "[R]")
    /\ Contains(UserPromptAt("Generation"), "[A]")
    /\ Contains(UserPromptAt("Review"), "[G]")
    /\ ~Contains(UserPromptAt("Review"), "[R]")

\* The callers that invoked _create_fallback_report in this run.
FallbackCallers == {fallback_from[i] : i \in DOMAIN fallback_from}

StagesEntered == {entered[i] : i \in DOMAIN entered}

\* C11 as stated: the fallback report builder is invoked only from the
\* top-level handler of create_report, never for a failure confined to a
\* stage.
C11_FallbackOnlyFromTopLevel == FallbackCallers \subseteq {"create_report"}

\* C11 amended: the builder is invoked from _generate_report exactly when
\* the Generation stage ran without a text from its completion call, and
\* from the top-level handler of create_report only when an exception
\* escaped a stage, which takes a config with a key missing; a failure in
\* Research, Analysis or Review never invokes it.
C11_FallbackFromGenerationOrTopLevel ==
    /\ FallbackCallers \subseteq {"_generate_report", "create_report"}
    /\ Len(fallback_from) = Cardinality(FallbackCallers)
    /\ "_generate_report" \in FallbackCallers
          <=> ("Generation" \in StagesEntered /\ ~Succeeded("Generation"))
    /\ "create_report" \in FallbackCallers
          => ~ConfigComplete /\ pc \in {"Done", "Raised"}
    /\ (ConfigComplete /\ pc = "Done" /\ Succeeded("Generation"))
          => fallback_from = <<>>

\* C11 witness: Research, Analysis and Review answered, the Generation
\* call raised, and the builder was invoked from _generate_report in a run
\* whose top-level handler was never entered.
C11_Witness ==
    /\ pc = "Done"
    /\ ConfigComplete
    /\ Succeeded("Research") /\ Succeeded("Analysis") /\ Succeeded("Review")
    /\ ResultAt("Generation") = "raised"
    /\ fallback_from = <<"_generate_report">>

\* The completion calls issued from `site` so far.
CallsAt(site) == {i \in DOMAIN calls : calls[i].site = site}

C14_EmptyTreatedLikeRaise ==
    /\ Failed("Research") =>
          research_data = conduct_research(config["topic"], Raise).value
    /\ Failed("Analysis") =>
          analysis_data
            = analyze_data(research_data, config["topic"], Raise).value
    /\ (Failed("Generation") /\ pc \in {"Review", "Done"}) =>
          \E fo \in Outcomes("Fallback"), t \in 0..now :
              /\ Result(fo) = ResultAt("Fallback")
              /\ report_content
                   = generate_report(config, research_data, analysis_data,
                                     Raise, fo, t).value
    /\ (Failed("Review") /\ pc = "Done") =>
          final_report = review_report(report_content, config, Raise).value

\* C14 amended: in Generation and Review a call that returned empty
\* content leaves the stage's output as a call that raised would have (the
\* fallback builder's result, the unchanged draft); in Research and
\* Analysis it does not: empty content yields the "data for" marker and a
\* raised call the "encountered an error" marker.  In every case the next
\* stage's prompt is built from that output.
C14_EmptyLikeRaiseInGenerationAndReview ==
    /\ ResultAt("Research") = "empty" =>
          /\ research_data = "Research data for: " \o config["topic"]
          /\ research_data # conduct_research(config["topic"], Raise).value
    /\ ResultAt("Analysis") = "empty" =>
          /\ analysis_data = "Analysis data for: " \o config["topic"]
          /\ analysis_data
               # analyze_data(research_data, config["topic"], Raise).value
    /\ (Failed("Generation") /\ pc \in {"Review", "Done"}) =>
          \E fo \in Outcomes("Fallback"), t \in 0..now :
              /\ Result(fo) = ResultAt("Fallback")
              /\ report_content
                   = generate_report(config, research_data, analysis_data,
                                     Raise, fo, t).value
    /\ (Failed("Review") /\ pc = "Done") =>
          final_report = review_report(report_content, config, Raise).value
    /\ ResultAt("Analysis") # "none" =>
          UserPromptAt("Analysis")
            = AnalysisUser(research_data, config["topic"])
    /\ ResultAt("Generation") # "none" =>
          UserPromptAt("Generation")
            = GenerationUser(config, research_data, analysis_data)
    /\ ResultAt("Review") # "none" =>
          UserPromptAt("Review") = ReviewUser(report_content, config)

\* C14 witness: all four stage calls returned empty content and the run
\* returned.
C14_Witness ==
    /\ pc = "Done"
    /\ \A site \in {"Research", "Analysis", "Generation", "Review"} :
          ResultAt(site) = "empty"
    /\ research_data = "Research data for: " \o config["topic"]
    /\ final_report = report_content

\* The deterministic stub that does, at every site, what the calls of this
\* run did (a site the run did not call raises).
StubOfRun ==
    [site \in Sites |->
        CASE ResultAt(site) = "text" -> Returns(StubText(site))
          [] ResultAt(site) = "empty" -> None
          [] OTHER -> Raise]

C16_MissingCredentialRaisesBeforeAnyCall ==
    /\ (creator.state # "none" /\ ~Truthy(creator.api_key)) =>
          /\ creator.state = "ValueError"
          /\ calls = <<>>
          /\ pc = "Idle"
          /\ caller = "none"
    /\ creator.state = "ValueError" => ~Truthy(creator.api_key)
    /\ pc # "Idle" =>
          creator.state = "constructed" /\ Truthy(creator.api_key)

\* C16 witness: a library user passed the empty string and the
\* constructor raised.
C16_Witness ==
    /\ app = "library"
    /\ creator = [state |-> "ValueError", api_key |-> Str("")]
    /\ calls = <<>>

\* C17: when the credential is absent from the environment the startup of
\* the API application fails, and from then on nothing happens in that
\* process: no request is handled and no run of create_report or of
\* ReportCrew.generate_report starts.  Requests are served, and runs
\* started for them, only with the credential present.
C17_NoRunWithoutCredential ==
    /\ [](app = "failed" =>
            /\ ~Truthy(env_api_key)
            /\ caller = "none"
            /\ response = NoResponse
            /\ pc = "Idle"
            /\ calls = <<>>)
    /\ [](app = "serving" => Truthy(env_api_key))
    /\ []((caller = "api" \/ response # NoResponse) => Truthy(env_api_key))
    /\ [][(app = "starting" /\ app' \in {"serving", "failed"}) =>
            (app' = "failed" <=> ~Truthy(env_api_key'))]_vars
    /\ [][app = "failed" => app' = "failed" /\ pc' = "Idle"]_vars

\* C17 witness: the environment carried an empty key and the startup
\* failed.
C17_Witness ==
    /\ app = "failed"
    /\ env_api_key = Str("")
    /\ pc = "Idle"

\* C18: a POST whose topic, once stripped, is shorter than 5 or longer
\* than 500 characters, whose length is outside 1..20, or whose
\* report_type is not one of the six values, is answered with an error
\* status, and neither create_report nor ReportCrew.generate_report is
\* entered for it: no run, no stage, no completion call.
C18_InvalidRequestStartsNoRun ==
    LET topic == Strip(request.topic)
        invalid ==
            \/ Len(topic) < MinTopicLength
            \/ Len(topic) > MaxTopicLength
            \/ request.length < MinLength
            \/ request.length > MaxLength
            \/ request.report_type \notin ReportTypes
    IN  (caller = "api" /\ invalid) =>
            /\ response.status \in {422, 500}
            /\ pc = "Idle"
            /\ config = NoConfig
            /\ entered = <<>>
            /\ calls = <<>>
            /\ final_report = ""

\* C18 witness: a request valid but for its 501-character topic was
\* answered 422 on /generate-report.
C18_Witness ==
    /\ caller = "api"
    /\ endpoint = "/generate-report"
    /\ Len(Strip(request.topic)) = MaxTopicLength + 1
    /\ request.length = 5
    /\ request.report_type = "Research Report"
    /\ response.status = 422
    /\ pc = "Idle"

\* The stub that does, at every site, what the calls of run r did.
StubOfConcurrentRun(r) ==
    [site \in Sites |->
        IF runs[r].results[site] = "text"
        THEN Returns(StubText(site)) ELSE Raise]

\* C19: every request in flight has a ReportCreator instance of its own,
\* and however the stages of the two runs interleave, what each stage of a
\* run produced, and the text the run returned, is what create_report
\* produces alone for that run's config and that run's call outcomes.
C19_RunsIsolated ==
    \A r \in RunIds :
        LET run == runs[r]
            topic == run.config["topic"]
            stub == StubOfConcurrentRun(r)
        IN  /\ instances = Cardinality({q \in RunIds : runs[q].pc # "Idle"})
            /\ run.pc # "Idle" =>
                  /\ run.creator \in 1..instances
                  /\ \A q \in RunIds \ {r} : runs[q].creator # run.creator
            /\ run.pc \in {"Analysis", "Generation", "Review", "Done"} =>
                  run.research_data
                    = conduct_research(topic, stub["Research"]).value
            /\ run.pc \in {"Generation", "Review", "Done"} =>
                  run.analysis_data
                    = analyze_data(run.research_data, topic,
                                   stub["Analysis"]).value
            /\ run.pc = "Done" =>
                  /\ run.final_report
                       = review_report(run.report_content, run.config,
                                       stub["Review"]).value
                  /\ \E t \in 0..now :
                        run.final_report = create_report(run.config, stub, t)

\* C19 witness: request 2 arrived first and is still at Review with the
\* Generation call's text as its draft, while request 1, on another
\* topic, had every call fail and returned its static document.
C19_Witness ==
    /\ runs[2].creator = 1
    /\ runs[1].creator = 2
    /\ runs[2].pc = "Review"
    /\ runs[2].report_content = "[G]"
    /\ runs[1].pc = "Done"
    /\ runs[1].config["topic"] # runs[2].config["topic"]
    /\ \A site \in Sites : runs[1].results[site] = "raised"
    /\ runs[1].final_report
         = StaticReport("Research Report", runs[1].config["topic"], 0)

\* C20: whatever agents.yaml and tasks.yaml hold, create_crew returns a
\* crew and does not raise; the crew has the four agents researcher,
\* analyst, writer, reviewer and four tasks, one per task name, in that
\* order; each agent is the one create_agent builds from the
\* configuration, or the fallback agent of that name when create_agent
\* raises, and each task is built from its configured entry or is the
\* fallback task of that name.
C20_CrewAlwaysHasFourAgentsAndTasks ==
    crew.state # "none" =>
        /\ crew.state = "built"
        /\ Len(crew.agents) = 4
        /\ Len(crew.tasks) = 4
        /\ \A i \in DOMAIN crew.agents :
              LET agent == crew.agents[i]
                  made == create_agent(crew_manager.agents_config, AgentNames[i])
              IN  /\ agent.key = AgentNames[i]
                  /\ IF made.raised
                     THEN agent = create_fallback_agent(AgentNames[i])
                     ELSE agent = made.value /\ agent.origin = "config"
        /\ \A i \in DOMAIN crew.tasks :
              LET task == crew.tasks[i]
                  configured ==
                      /\ crew_manager.tasks_config.kind = "dict"
                      /\ HasKey(crew_manager.tasks_config.entries, TaskNames[i])
              IN  /\ task.key = TaskNames[i]
                  /\ task.build = crew_manager.builds
                  /\ task.agent \in Range(crew.agents)
                  /\ \/ /\ task.origin = "config"
                        /\ configured
                        /\ task.agent.key
                             = crew_manager.tasks_config
                                   .entries[TaskNames[i]].entries["agent"]
                        /\ crew_manager.tasks[TaskNames[i]] = task
                     \/ task = create_fallback_task(
                                   TaskNames[i],
                                   [n \in Range(AgentNames) |->
                                       crew.agents[CHOOSE j \in DOMAIN AgentNames :
                                                       AgentNames[j] = n]],
                                   CrewTopic, crew_manager.builds)

\* C20 witness: agents.yaml has no researcher and an empty analyst entry,
\* tasks.yaml lacks the research task and assigns the analysis task to an
\* agent that does not exist; the crew has fallbacks in those places and
\* configured objects in the others.
C20_Witness ==
    /\ crew.state = "built"
    /\ crew_manager.agents_config.kind = "dict"
    /\ ~HasKey(crew_manager.agents_config.entries, "researcher")
    /\ [i \in 1..4 |-> crew.agents[i].origin]
         = <<"fallback", "fallback", "config", "config">>
    /\ [i \in 1..4 |-> crew.tasks[i].origin]
         = <<"fallback", "fallback", "config", "config">>
    /\ crew.tasks[3].agent.key = "writer"

\* C23: from the moment create_report is called with a config, no step of
\* the run (the stages, the fallback builder, the top-level handler, the
\* handler's response) changes any field of the config mapping, whether
\* the stages succeed, fail or the call raises.
C23_ConfigUnchangedDuringRun == [][pc # "Idle" => config' = config]_vars

\* C23 witness: a run whose five calls all failed has returned and the
\* config is still the one the CLI passed.
C23_Witness ==
    /\ AllCallsFailed
    /\ Len(calls) = 5
    /\ caller = "cli"
    /\ config = CliConfig

\* C24: for a config that carries topic, report_type and length,
\* create_report's `except Exception` clause is never entered and the call
\* does not raise, whatever the completion calls do; create_report returns
\* only out of the Review stage, and the value returned is what
\* _review_report returned for the document and the outcome of its call.
C24_TopLevelHandlerNeverEntered ==
    /\ [](ConfigComplete =>
            /\ "create_report" \notin FallbackCallers
            /\ pc # "Raised")
    /\ [][(ConfigComplete /\ pc # "Done" /\ pc' = "Done") =>
            /\ pc = "Review"
            /\ \E o \in Outcomes("Review") :
                  /\ Result(o) = ResultAt("Review")'
                  /\ final_report' = review_report(report_content, config, o).value]_vars

\* C24 witness: a library caller's run with a complete config in which
\* the Research, Generation, fallback and Review calls raised has returned
\* what Review returned; the fallback builder was invoked by
\* _generate_report alone.
C24_Witness ==
    /\ pc = "Done"
    /\ caller = "direct"
    /\ ConfigComplete
    /\ \A site \in {"Research", "Generation", "Fallback", "Review"} :
          ResultAt(site) = "raised"
    /\ fallback_from = <<"_generate_report">>
    /\ final_report = report_content

\* C25: when the Generation call failed (it raised or returned empty
\* content) and the Review call returned non-empty text, create_report
\* has put the fallback document through the Review call (the Review
\* prompt is built from it) and returns the Review call's text, not the
\* fallback document;
\* when the Review call failed too, it returns the fallback document
\* unchanged.
C25_ReviewRunsOverFallbackDocument ==
    (pc = "Done" /\ Failed("Generation")) =>
        /\ ResultAt("Review") # "none"
        /\ report_content \in StaticReports \cup {StubText("Fallback")}
        /\ UserPromptAt("Review") = ReviewUser(report_content, config)
        /\ Contains(UserPromptAt("Review"), report_content)
        /\ Succeeded("Review") =>
              final_report = StubText("Review") /\ final_report # report_content
        /\ Failed("Review") => final_report = report_content

\* C25 witness: the Generation call returned empty content, the fallback
\* builder's call raised, Review answered with text, and the run returned
\* the Review text while the document under review was the static one.
C25_Witness ==
    /\ pc = "Done"
    /\ ResultAt("Generation") = "empty"
    /\ ResultAt("Fallback") = "raised"
    /\ Succeeded("Review")
    /\ report_content \in StaticReports
    /\ final_report = "[Rv]"

\* The generators the handler of the request being served has invoked.
GeneratorsInvoked ==
    (IF pc = "Crew" THEN {"ReportCrew.generate_report"} ELSE {})
        \cup (IF entered # <<>> \/ pc \notin {"Idle", "Crew"}
              THEN {"ReportCreator.create_report"} ELSE {})

\* C26: a validated request to /generate-report-unified that has been
\* answered had exactly one generator invoked for it:
\* ReportCrew.generate_report when use_crew is true and
\* ReportCreator.create_report otherwise, never both; and a response that
\* carries a report names that generator in generation_method (crewai /
\* standard) and in the report_id prefix (CREW / STD).
C26_UnifiedInvokesExactlyOneGenerator ==
    (caller = "api" /\ endpoint = "/generate-report-unified"
        /\ ValidRequest(request) /\ response.status # 0) =>
        /\ GeneratorsInvoked
             = {IF request.use_crew THEN "ReportCrew.generate_report"
                ELSE "ReportCreator.create_report"}
        /\ response.status = 200 =>
              /\ response.generation_method
                   = (IF request.use_crew THEN "crewai" ELSE "standard")
              /\ response.report_prefix
                   = (IF request.use_crew THEN "CREW" ELSE "STD")

\* The names of the tasks handed to the crew, in the order of the list.
CrewTaskNames == [i \in DOMAIN crew.tasks |-> crew.tasks[i].key]

\* The dependencies tasks.yaml declares for a task, <<>> when it has no
\* entry for it.
DeclaredDependencies(task_name) ==
    IF crew_manager.tasks_config.kind = "dict"
          /\ HasKey(crew_manager.tasks_config.entries, task_name)
          /\ crew_manager.tasks_config.entries[task_name].kind = "dict"
    THEN Get(crew_manager.tasks_config.entries[task_name].entries,
             "dependencies", <<>>)
    ELSE <<>>

\* C21: every crew handed back has the task list research_task,
\* analysis_task, writing_task, review_task in that order and sequential
\* processing, whatever dependencies tasks.yaml declares (none, the usual
\* chain, each task on later tasks, each task on itself, unknown names)
\* and whatever dependencies got attached to the tasks.
C21_TasksInFixedOrderSequential ==
    crew.state = "built" =>
        /\ CrewTaskNames = TaskNames
        /\ crew.process = "sequential"

\* C21 witness: tasks.yaml makes the research task depend on the analysis
\* and review tasks; the crew of the second call has a dependency attached
\* to its research task, which is still the first of the four.
C21_Witness ==
    /\ crew.state = "built"
    /\ DeclaredDependencies("research_task") = <<"analysis_task", "review_task">>
    /\ crew.tasks[1].key = "research_task"
    /\ crew.tasks[1].dependencies # <<>>
    /\ crew.tasks[4].dependencies = <<>>
    /\ crew.process = "sequential"

\* C22: ReportCrew.generate_report does not raise, for a complete and for
\* an empty config dict; when create_crew or crew.kickoff() raised it
\* returns the static fallback report for the topic, with the config's
\* report_type or "Report" in its title, and otherwise the text of the
\* kickoff result.
C22_CrewGenerateReportNeverRaises ==
    crew_report.state # "none" =>
        /\ crew_report.state = "returned"
        /\ crew_report.kickoff \in {"none", "raised"} =>
              \E t \in 0..now :
                  crew_report.value
                    = generate_fallback_report(CrewTopic, crew_report.config, t)
        /\ crew_report.kickoff = "text" => crew_report.value = "[Crew]"

\* C22 witness: called with an empty dict, the crew was built, kickoff
\* raised, and the caller got the fallback report titled "Report".
C22_Witness ==
    /\ crew_report.state = "returned"
    /\ crew.state = "built"
    /\ crew_report.kickoff = "raised"
    /\ crew_report.config = NoConfig
    /\ Contains(crew_report.value, "\n# Report: " \o CrewTopic \o "\n")
    /\ Contains(crew_report.value, "*Note: This is a simplified report.")

\* C27: in the crew a create_crew call hands back, first or later call on
\* the manager, every dependency attached to a task is a task object of
\* that same crew standing earlier in its task list; a declared dependency
\* on a task not yet created in this call is dropped, and no dependency is
\* a task object of an earlier call.
C27_DependenciesAreEarlierTasksOfSameCrew ==
    crew.state = "built" =>
        \A i \in DOMAIN crew.tasks :
            \A d \in Range(crew.tasks[i].dependencies) :
                \E j \in 1..(i - 1) : TaskId(crew.tasks[j]) = d

\* The two counters of the Report Stats column.
Counters == {"reports_generated", "recent_reports"}

\* C28: after any sequence of script runs of a session, recent_reports
\* holds at most 10 topics, and they are the topics of the last (at most
\* 10) runs of generate_report that completed, in the order in which the
\* runs completed.
C28_RecentReportsAreLastTenCompleted ==
    HasKey(session_state, "recent_reports") =>
        LET recent == session_state["recent_reports"]
            n == Len(completed)
            kept == IF n < 10 THEN n ELSE 10
        IN  /\ Len(recent) <= 10
            /\ recent = [i \in 1..kept |-> completed[n - kept + i]]

\* C28 witness: eleven runs completed, the first and the last for the
\* example topic; the list holds ten topics and starts with the topic of
\* the second run.
C28_Witness ==
    /\ Len(completed) = 11
    /\ completed[1] = ExampleTopic
    /\ completed[2] = "Cloud"
    /\ Len(session_state["recent_reports"]) = 10
    /\ session_state["recent_reports"][1] = "Cloud"
    /\ session_state["recent_reports"][10] = ExampleTopic

\* C29: a script run whose generate_report call got a report back from
\* create_report leaves reports_generated exactly one higher than it was,
\* also when every completion call failed and the report is the fallback
\* document; and a generate_report call with an empty API key or a blank
\* topic returns early and leaves the session state, both counters
\* included, as it was.
C29_CounterIncrementsOncePerReport ==
    /\ [][last_call'.report # "" =>
            /\ HasKey(session_state, "reports_generated")
            /\ session_state'["reports_generated"]
                 = session_state["reports_generated"] + 1]_vars
    /\ [](\A topic \in TopicInputs \cup {""}, api_key \in ApiKeyInputs,
             stub \in AppStubs :
               (api_key = "" \/ Strip(topic) = "") =>
                   LET done == app_generate_report(session_state, topic,
                                                   api_key, stub, now)
                   IN  /\ done.call.outcome = "early_return"
                       /\ done.session = session_state)

\* C29 witness: the second report of the session is the static fallback
\* document, every completion call having failed, and the counter is 2.
C29_Witness ==
    /\ last_call.outcome = "updated"
    /\ last_call.report
         = StaticReport("Comprehensive Analysis", last_call.topic, now)
    /\ last_call.before["reports_generated"] = 1
    /\ session_state["reports_generated"] = 2
    /\ Len(session_state["recent_reports"]) = 2

\* C30: in a session, generate_report never reaches its update of the
\* counters with reports_generated or recent_reports absent from the
\* session state: from the first script run on, both are present whenever
\* a script run ends, so they are present when a click is handled.
C30_CountersInitialisedBeforeUpdate ==
    /\ st_status # "closed" => Counters \subseteq DOMAIN session_state
    /\ last_call.outcome \in {"updated", "error"} =>
          /\ last_call.absent = {}
          /\ Counters \subseteq DOMAIN last_call.before
          /\ last_call.outcome = "updated"

\* C30 witness: the first click of the session, after an example button
\* and its rerun: the handler ran generate_report before the
\* initialisation block of that script run, and found both counters
\* present and at their initial values.
C30_Witness ==
    /\ last_call.outcome = "updated"
    /\ last_call.topic = ExampleTopic
    /\ completed = <<ExampleTopic>>
    /\ last_call.before["reports_generated"] = 0
    /\ last_call.before["recent_reports"] = <<>>
    /\ session_state["reports_generated"] = 1

====
